---- MODULE Spec2Model ----
(***************************************************************************)
(* Token server (src/server/token_server.py) and voice agent entrypoint    *)
(* (src/server/agent.py) of the ALIAS executive agent.                     *)
(*                                                                         *)
(* The token server is a FastAPI application: every request is served by   *)
(* a coroutine that runs atomically between awaits.  The only await of a   *)
(* handler is the remote create-room call inside _ensure_room, so a        *)
(* handler is one step (no remote call) or two steps (before and after     *)
(* the remote call).  The media platform and the signing library are not   *)
(* part of the repository: the platform is an environment that answers a   *)
(* create-room call with success or with an exception, and the library's   *)
(* treatment of an empty identity or room is left open.                    *)
(***************************************************************************)
EXTENDS Integers, Sequences, FiniteSets, TLC

(***************************************************************************)
(* Bounds                                                                  *)
(***************************************************************************)
\* requests admitted in one behaviour (over both endpoints)
MaxRequests == 2
\* voice jobs the worker process starts in one behaviour
MaxJobs == 2

\* coroutines that may be in flight at the same time
Handlers == {1, 2}

(***************************************************************************)
(* Values                                                                  *)
(***************************************************************************)
\* Python None; also the value of an environment variable that is not set
None == "<None>"

\* Python truthiness of an Optional[str]
Truthy(s) == s # None /\ s # ""

\* a or b
Or(a, b) == IF Truthy(a) THEN a ELSE b

EnvNames == {"LIVEKIT_URL", "LIVEKIT_API_KEY", "LIVEKIT_API_SECRET"}

\* what the deployment may put in the environment for a variable
EnvValues(k) ==
    {None, "",
     CASE k = "LIVEKIT_URL" -> "wss://lk.example"
       [] k = "LIVEKIT_API_KEY" -> "prodkey"
       [] OTHER -> "prodsecret"}

\* the environments followed: a deployment that sets all three variables,
\* one that sets none of them, and one that sets all three and leaves one
\* of them empty
Environments == {e \in [EnvNames -> UNION {EnvValues(k) : k \in EnvNames}] :
                    /\ \A k \in EnvNames : e[k] \in EnvValues(k)
                    /\ \/ \A k \in EnvNames : e[k] = None
                       \/ /\ \A k \in EnvNames : e[k] # None
                          /\ Cardinality({k \in EnvNames : e[k] = ""}) <= 1}

\* os.getenv(k, default)
getenv(e, k, default) == IF e[k] = None THEN default ELSE e[k]

RoomNames == {"", "r1", "r2"}
Identities == {"", "u1", "u2"}
DisplayNames == {None, "Ann"}

\* pydantic: room and identity are required str, name Optional[str] = None,
\* auto_create_room bool = True; no length constraint is declared
TokenRequest ==
    [kind : {"token"}, room : RoomNames, identity : Identities,
     name : DisplayNames, auto_create_room : BOOLEAN]

\* pydantic: name is a required str; the other fields do not exist on this
\* request and are filled so that both request kinds have one shape
RoomCreateRequest ==
    [kind : {"rooms"}, room : RoomNames, identity : {None},
     name : {None}, auto_create_room : {TRUE}]

NoBody == [kind |-> "none", room |-> None, identity |-> None,
           name |-> None, auto_create_room |-> FALSE]

(***************************************************************************)
(* Exception texts, as sequences of characters                             *)
(***************************************************************************)
UpperCase == <<"A", "C", "D", "E", "I", "L", "R", "S", "T", "X", "Y">>
LowerCase == <<"a", "c", "d", "e", "i", "l", "r", "s", "t", "x", "y">>

\* str.lower() on one character
LowerChar(c) ==
    IF \E i \in 1..Len(UpperCase) : UpperCase[i] = c
    THEN LowerCase[CHOOSE i \in 1..Len(UpperCase) : UpperCase[i] = c]
    ELSE c

\* a comparison that forgets to fold the case
lower_identity(s) == s

\* str.lower()
lower(s) == [i \in 1..Len(s) |-> LowerChar(s[i])]

\* a test for a leading occurrence only (startswith)
In_startswith(sub, s) ==
    Len(sub) <= Len(s) /\ SubSeq(s, 1, Len(sub)) = sub

\* sub in s
In(sub, s) ==
    \E i \in 1..(Len(s) - Len(sub) + 1) : SubSeq(s, i, i + Len(sub) - 1) = sub

AlreadyExistsText == <<"a","l","r","e","a","d","y"," ","e","x","i","s","t","s">>
ExistsText == <<"e","x","i","s","t","s">>

\* texts with which the platform reports that the room is already there
MsgRoomAlreadyExists ==
    <<"R","o","o","m"," ","a","l","r","e","a","d","y"," ","e","x","i","s","t","s">>
MsgAlreadyExistsCode ==
    <<"A","L","R","E","A","D","Y","_","E","X","I","S","T","S">>
\* texts of failures that have nothing to do with the room being there
MsgTimeout == <<"t","i","m","e","o","u","t">>
MsgNoSuchHost == <<"n","o"," ","s","u","c","h"," ","h","o","s","t"," ","e","x","i","s","t","s">>

DuplicateTexts == {MsgRoomAlreadyExists, MsgAlreadyExistsCode}
UnrelatedTexts == {MsgTimeout, MsgNoSuchHost}

Ok == [raised |-> FALSE, cause |-> "none", text |-> <<>>]
NoReply == [raised |-> FALSE, cause |-> "pending", text |-> <<>>]
Raised(cause, text) == [raised |-> TRUE, cause |-> cause, text |-> text]

\* What lkapi.room.create_room (with the client construction around it) can
\* answer for a room name, given the rooms the platform holds: success, the
\* room being there already reported as success or as an exception, or any
\* other failure.
CreateRoomReplies(existing, name) ==
    {Ok}
    \cup (IF name \in existing
          THEN {Raised("duplicate", t) : t \in DuplicateTexts}
          ELSE {})
    \cup {Raised("unrelated", t) : t \in UnrelatedTexts}

(***************************************************************************)
(* HTTP responses                                                          *)
(***************************************************************************)
\* A detail text is a sequence: a fixed head followed by the characters of
\* the exception text interpolated into it.
ConfigDetail == <<"LIVEKIT_URL, LIVEKIT_API_KEY, and LIVEKIT_API_SECRET must be set">>
FailedPrefix == <<"Failed to create room: ">>

NoGrants == [room_join |-> FALSE, room |-> None, can_publish |-> FALSE,
             can_subscribe |-> FALSE, can_publish_data |-> FALSE]

NoToken == [key |-> None, secret |-> None, identity |-> None, name |-> None,
            grants |-> NoGrants]

NoResponse == [status |-> 0, detail |-> <<>>, token |-> NoToken, url |-> None,
               identity |-> None, room |-> None, created |-> FALSE]

\* raise HTTPException(status_code=..., detail=...)
HTTPException(status_code, detail) ==
    [NoResponse EXCEPT !.status = status_code, !.detail = detail]

\* an exception that no handler catches: the framework answers 500
InternalServerError == HTTPException(500, <<"Internal Server Error">>)

(***************************************************************************)
(* State                                                                   *)
(***************************************************************************)
VARIABLES
    environ,             \* the process environment after load_dotenv()
    LIVEKIT_URL,         \* module globals, read once at import
    LIVEKIT_API_KEY,
    LIVEKIT_API_SECRET,
    rooms,               \* rooms held by the media platform
    handler,             \* per coroutine: position, request, reply, response
    admitted,            \* requests admitted so far
    job,                 \* per voice job: position of entrypoint and its effects
    started              \* voice jobs started so far

serverVars == <<environ, LIVEKIT_URL, LIVEKIT_API_KEY, LIVEKIT_API_SECRET,
                rooms, handler, admitted>>
agentVars == <<job, started>>
vars == <<environ, LIVEKIT_URL, LIVEKIT_API_KEY, LIVEKIT_API_SECRET,
          rooms, handler, admitted, job, started>>

Idle == [pc |-> "idle", body |-> NoBody, calls |-> 0, reply |-> NoReply,
         second |-> FALSE, resp |-> NoResponse]

(***************************************************************************)
(* token_server.py                                                         *)
(***************************************************************************)
\* a guard that forgets the secret
_require_config_no_secret ==
    Truthy(LIVEKIT_URL) /\ Truthy(LIVEKIT_API_KEY)

\* _require_config: TRUE when it returns, FALSE when it raises
_require_config ==
    Truthy(LIVEKIT_URL) /\ Truthy(LIVEKIT_API_KEY) /\ Truthy(LIVEKIT_API_SECRET)

\* an except clause that swallows every exception
_ensure_room_swallow(reply) == NoResponse

\* an except clause that reports every exception
_ensure_room_strict(reply) ==
    IF ~reply.raised
    THEN NoResponse
    ELSE HTTPException(500, FailedPrefix \o reply.text)

\* _ensure_room after the remote call has answered: NoResponse when it
\* returns normally, the HTTPException when it raises
_ensure_room(reply) ==
    IF ~reply.raised
    THEN NoResponse
    ELSE LET msg == lower(reply.text) IN
         IF In(AlreadyExistsText, msg) \/ In(ExistsText, msg)
         THEN NoResponse
         ELSE HTTPException(500, FailedPrefix \o reply.text)

\* a grant that leaves out the data channel
VideoGrants_no_data(body) ==
    [room_join |-> TRUE, room |-> body.room, can_publish |-> TRUE,
     can_subscribe |-> TRUE, can_publish_data |-> FALSE]

\* api.VideoGrants(...) of get_token
VideoGrants(body) ==
    [room_join |-> TRUE, room |-> body.room, can_publish |-> TRUE,
     can_subscribe |-> TRUE, can_publish_data |-> TRUE]

\* a token whose identity is taken from the display name when there is one
AccessToken_name_as_identity(body) ==
    [key |-> LIVEKIT_API_KEY, secret |-> LIVEKIT_API_SECRET,
     identity |-> Or(body.name, body.identity),
     name |-> Or(body.name, body.identity),
     grants |-> [room_join |-> TRUE, room |-> body.room, can_publish |-> TRUE,
                 can_subscribe |-> TRUE, can_publish_data |-> TRUE]]

\* api.AccessToken(key, secret).with_identity(..).with_name(..).with_grants(..)
AccessToken(body) ==
    [key |-> LIVEKIT_API_KEY, secret |-> LIVEKIT_API_SECRET,
     identity |-> body.identity, name |-> Or(body.name, body.identity),
     grants |-> VideoGrants(body)]

\* Whether token.to_jwt() may refuse to sign.  The source puts no check
\* before it; the signing library is free to refuse a join grant without an
\* identity or a room, and to sign it.
MayRefuse(body) ==
    IF body.identity = "" \/ body.room = "" THEN BOOLEAN ELSE {FALSE}

\* the rest of get_token once the room step is over
get_token_return(body, refused) ==
    IF refused
    THEN InternalServerError
    ELSE [NoResponse EXCEPT !.status = 200, !.token = AccessToken(body),
                            !.url = LIVEKIT_URL, !.identity = body.identity,
                            !.room = body.room]

\* the rest of create_room once the room step is over
create_room_return(body) ==
    [NoResponse EXCEPT !.status = 200, !.room = body.room, !.created = TRUE]

\* a handler that provisions whatever the flag says
get_token_provisions_always(body) == TRUE

\* whether get_token calls _ensure_room
get_token_provisions(body) == body.auto_create_room

Done(body, calls, reply, second, resp) ==
    [pc |-> "done", body |-> body, calls |-> calls, reply |-> reply,
     second |-> second, resp |-> resp]

Awaiting(body, calls, second) ==
    [pc |-> "awaiting", body |-> body, calls |-> calls, reply |-> NoReply,
     second |-> second, resp |-> NoResponse]

\* whether a call of _ensure_room for this name has returned normally in a
\* request that is finished and not yet answered
Returned(name) ==
    \E g \in Handlers :
        /\ handler[g].pc = "done"
        /\ handler[g].calls = 1
        /\ handler[g].body.room = name
        /\ handler[g].resp # HTTPException(500, FailedPrefix \o handler[g].reply.text)

\* the server starts a coroutine for an admitted request; coroutines are
\* anonymous, so the lowest free slot stands for it
FreeSlot(h) ==
    /\ handler[h].pc = "idle"
    /\ \A g \in Handlers : g < h => handler[g].pc # "idle"

\* POST /token up to its first await, or to its end when there is none
get_token(h, body) ==
    /\ FreeSlot(h)
    /\ admitted < MaxRequests
    /\ admitted' = admitted + 1
    /\ IF ~_require_config
       THEN handler' = [handler EXCEPT ![h] =
                Done(body, 0, NoReply, FALSE, HTTPException(500, ConfigDetail))]
       ELSE IF get_token_provisions(body)
       THEN handler' = [handler EXCEPT ![h] =
                Awaiting(body, 1, Returned(body.room))]
       ELSE \E refused \in MayRefuse(body) :
                handler' = [handler EXCEPT ![h] =
                    Done(body, 0, NoReply, FALSE, get_token_return(body, refused))]
    /\ UNCHANGED <<environ, LIVEKIT_URL, LIVEKIT_API_KEY, LIVEKIT_API_SECRET,
                   rooms, job, started>>

\* POST /token from the answer of the remote call to the response
get_token_resume(h, reply) ==
    LET body == handler[h].body
        raised == _ensure_room(reply)
    IN
    /\ handler[h].pc = "awaiting"
    /\ body.kind = "token"
    /\ reply \in CreateRoomReplies(rooms, body.room)
    /\ rooms' = IF reply = Ok THEN rooms \cup {body.room} ELSE rooms
    /\ IF raised # NoResponse
       THEN /\ handler' = [handler EXCEPT ![h] =
                    Done(body, handler[h].calls, reply, handler[h].second, raised)]
       ELSE /\ \E refused \in MayRefuse(body) :
                 handler' = [handler EXCEPT ![h] =
                     Done(body, handler[h].calls, reply, handler[h].second,
                          get_token_return(body, refused))]
    /\ UNCHANGED <<environ, LIVEKIT_URL, LIVEKIT_API_KEY, LIVEKIT_API_SECRET,
                   admitted, job, started>>

\* POST /rooms up to its await
create_room(h, body) ==
    /\ FreeSlot(h)
    /\ admitted < MaxRequests
    /\ admitted' = admitted + 1
    /\ IF ~_require_config
       THEN handler' = [handler EXCEPT ![h] =
                Done(body, 0, NoReply, FALSE, HTTPException(500, ConfigDetail))]
       ELSE handler' = [handler EXCEPT ![h] =
                Awaiting(body, 1, Returned(body.room))]
    /\ UNCHANGED <<environ, LIVEKIT_URL, LIVEKIT_API_KEY, LIVEKIT_API_SECRET,
                   rooms, job, started>>

\* POST /rooms from the answer of the remote call to the response
create_room_resume(h, reply) ==
    LET body == handler[h].body
        raised == _ensure_room(reply)
    IN
    /\ handler[h].pc = "awaiting"
    /\ body.kind = "rooms"
    /\ reply \in CreateRoomReplies(rooms, body.room)
    /\ rooms' = IF reply = Ok THEN rooms \cup {body.room} ELSE rooms
    /\ IF raised # NoResponse
       THEN /\ handler' = [handler EXCEPT ![h] =
                    Done(body, handler[h].calls, reply, handler[h].second, raised)]
       ELSE /\ handler' = [handler EXCEPT ![h] =
                    Done(body, handler[h].calls, reply, handler[h].second,
                         create_room_return(body))]
    /\ UNCHANGED <<environ, LIVEKIT_URL, LIVEKIT_API_KEY, LIVEKIT_API_SECRET,
                   admitted, job, started>>

\* the response has been written; the coroutine is gone
respond(h) ==
    /\ handler[h].pc = "done"
    /\ handler' = [handler EXCEPT ![h] = Idle]
    /\ UNCHANGED <<environ, LIVEKIT_URL, LIVEKIT_API_KEY, LIVEKIT_API_SECRET,
                   rooms, admitted, job, started>>

ServerInit ==
    /\ environ \in Environments
    /\ LIVEKIT_URL = getenv(environ, "LIVEKIT_URL", "ws://localhost:7880")
    /\ LIVEKIT_API_KEY = getenv(environ, "LIVEKIT_API_KEY", "devkey")
    /\ LIVEKIT_API_SECRET = getenv(environ, "LIVEKIT_API_SECRET", "secret")
    /\ rooms \in {{}, {"r1"}}
    /\ handler = [h \in Handlers |-> Idle]
    /\ admitted = 0

(***************************************************************************)
(* agent.py                                                                *)
(***************************************************************************)
\* seconds of the keep-alive loop followed in one job
MaxSleeps == 2

Jobs == 1..MaxJobs

\* how an awaited call can end: it returns, it raises an Exception, or the
\* task is cancelled while it waits (the worker shuts the job down when the
\* room closes or the process is told to stop)
Outcomes == {"returns", "raises", "cancelled"}

NotStarted == [pc |-> "idle", log |-> <<>>, trace |-> <<>>, replies |-> 0,
               sleeps |-> 0, tried |-> FALSE, exit |-> "none"]

\* an entrypoint whose last log line sits in the except clause, not in finally
LeaveTry_no_finally(j, outcome) ==
    [j EXCEPT !.pc = "exited",
              !.log = IF outcome = "raises"
                      THEN j.log \o <<"error", "ended">>
                      ELSE j.log,
              !.exit = IF outcome = "raises" THEN "returned" ELSE "cancelled"]

\* the except/finally of entrypoint for an outcome that ends the try block
LeaveTry(j, outcome) ==
    [j EXCEPT !.pc = "exited",
              !.log = IF outcome = "raises"
                      THEN j.log \o <<"error", "ended">>
                      ELSE j.log \o <<"ended">>,
              !.exit = IF outcome = "raises" THEN "returned" ELSE "cancelled"]

\* the worker calls entrypoint(ctx): it runs to await ctx.connect()
entrypoint(i) ==
    /\ job[i].pc = "idle"
    /\ started < MaxJobs
    /\ started' = started + 1
    /\ job' = [job EXCEPT ![i] = [@ EXCEPT !.pc = "connect"]]
    /\ UNCHANGED serverVars

\* ctx.connect() ends; on return the pipeline is constructed (any of the
\* constructors may raise) and session.start is awaited
connect_returns(i, outcome, built) ==
    /\ job[i].pc = "connect"
    /\ job' = [job EXCEPT ![i] =
         IF outcome # "returns"
         THEN [@ EXCEPT !.pc = "exited",
                        !.exit = IF outcome = "raises" THEN "raised" ELSE "cancelled"]
         ELSE IF ~built
         THEN [@ EXCEPT !.pc = "exited", !.exit = "raised",
                        !.trace = @ \o <<"connect">>,
                        !.log = @ \o <<"starting">>]
         ELSE [@ EXCEPT !.pc = "start", !.tried = TRUE,
                        !.trace = @ \o <<"connect">>,
                        !.log = @ \o <<"starting">>]]
    /\ UNCHANGED <<serverVars, started>>

\* session.start(...) ends; on return generate_reply is awaited
start_returns(i, outcome) ==
    /\ job[i].pc = "start"
    /\ job' = [job EXCEPT ![i] =
         IF outcome = "returns"
         THEN [@ EXCEPT !.pc = "reply", !.trace = @ \o <<"start">>]
         ELSE LeaveTry(@, outcome)]
    /\ UNCHANGED <<serverVars, started>>

\* session.generate_reply(...) ends; on return the loop is entered
reply_returns(i, outcome) ==
    /\ job[i].pc = "reply"
    /\ job' = [job EXCEPT ![i] =
         IF outcome = "returns"
         THEN [@ EXCEPT !.pc = "sleep", !.trace = @ \o <<"reply">>,
                        !.replies = @ + 1]
         ELSE LeaveTry(@, outcome)]
    /\ UNCHANGED <<serverVars, started>>

\* asyncio.sleep(1) ends: it returns and the loop sleeps again, or the task
\* is cancelled; sleep raises nothing else
sleep_returns(i, outcome) ==
    /\ job[i].pc = "sleep"
    /\ outcome # "raises"
    /\ outcome = "returns" => job[i].sleeps < MaxSleeps
    /\ job' = [job EXCEPT ![i] =
         IF outcome = "returns"
         THEN [@ EXCEPT !.sleeps = @ + 1]
         ELSE LeaveTry(@, outcome)]
    /\ UNCHANGED <<serverVars, started>>

AgentInit ==
    /\ job = [i \in Jobs |-> NotStarted]
    /\ started = 0

(***************************************************************************)
(* Specifications                                                          *)
(***************************************************************************)
Init == ServerInit /\ AgentInit

Next ==
    \/ \E h \in Handlers, body \in TokenRequest : get_token(h, body)
    \/ \E h \in Handlers, reply \in {Ok} \cup {Raised(c, t) :
            c \in {"duplicate", "unrelated"}, t \in DuplicateTexts \cup UnrelatedTexts} :
         get_token_resume(h, reply)
    \/ \E h \in Handlers, body \in RoomCreateRequest : create_room(h, body)
    \/ \E h \in Handlers, reply \in {Ok} \cup {Raised(c, t) :
            c \in {"duplicate", "unrelated"}, t \in DuplicateTexts \cup UnrelatedTexts} :
         create_room_resume(h, reply)
    \/ \E h \in Handlers : respond(h)

Spec == Init /\ [][Next]_vars

AgentNext ==
    \/ \E i \in Jobs : entrypoint(i)
    \/ \E i \in Jobs, outcome \in Outcomes, built \in BOOLEAN :
         connect_returns(i, outcome, built)
    \/ \E i \in Jobs, outcome \in Outcomes : start_returns(i, outcome)
    \/ \E i \in Jobs, outcome \in Outcomes : reply_returns(i, outcome)
    \/ \E i \in Jobs, outcome \in Outcomes : sleep_returns(i, outcome)

AgentSpec == Init /\ [][AgentNext]_vars

(***************************************************************************)
(* Properties of the token server, stated for Spec                         *)
(***************************************************************************)
Busy == {h \in Handlers : handler[h].pc # "idle"}
Finished == {h \in Handlers : handler[h].pc = "done"}
Tokens == {h \in Finished : handler[h].body.kind = "token"}

ConfigurationError(resp) == resp = HTTPException(500, ConfigDetail)

SessionProvisioningError(h) ==
    handler[h].resp = HTTPException(500, FailedPrefix \o handler[h].reply.text)

\* the request satisfies the data model: identity and session name not empty
WellFormed(body) ==
    body.kind = "token" => body.identity # "" /\ body.room # ""

\* the remote call of h failed and its text does not mention "exists"
FailedWithoutExists(h) ==
    /\ handler[h].reply.raised
    /\ ~In(ExistsText, lower(handler[h].reply.text))

\* C1 as stated: whenever one of the three variables is not set in the
\* environment, a request makes no remote call and ends in the
\* configuration error.
C1_UnsetIsConfigurationError ==
    (\E k \in EnvNames : environ[k] = None) =>
        \A h \in Busy :
            /\ handler[h].calls = 0
            /\ handler[h].pc = "done"
            /\ ConfigurationError(handler[h].resp)

\* C1 amended: whenever one of the three settings is empty once the defaults
\* are applied (its variable is set to the empty string), a request of
\* either endpoint makes no remote call and ends in the configuration error
\* with the fixed text.
C1_EmptyIsConfigurationError ==
    (\E k \in EnvNames : environ[k] = "") =>
        \A h \in Busy :
            /\ handler[h].calls = 0
            /\ handler[h].pc = "done"
            /\ ConfigurationError(handler[h].resp)

C1_Witness ==
    /\ environ["LIVEKIT_API_SECRET"] = ""
    /\ environ["LIVEKIT_URL"] # "" /\ environ["LIVEKIT_API_KEY"] # ""
    /\ \E h, g \in Finished :
          /\ handler[h].body.kind = "token" /\ handler[h].body.auto_create_room
          /\ handler[g].body.kind = "rooms"
          /\ ConfigurationError(handler[h].resp)
          /\ ConfigurationError(handler[g].resp)

\* C2 as stated: a token request with auto-provision whose remote call
\* failed for a reason other than the room being there ends in the
\* provisioning error and carries no credential.
C2_UnrelatedFailureIsError ==
    \A h \in Tokens :
        (handler[h].body.auto_create_room /\ handler[h].reply.cause = "unrelated") =>
            /\ SessionProvisioningError(h)
            /\ handler[h].resp.token = NoToken

\* C2 amended: a token request with auto-provision whose remote call failed
\* with a text that does not contain "exists" (case folded) ends in the
\* provisioning error and carries no credential; a request that ended in
\* the provisioning error never carries a credential.
C2_FailureWithoutExistsIsError ==
    \A h \in Tokens :
        /\ (handler[h].body.auto_create_room /\ FailedWithoutExists(h)) =>
              /\ SessionProvisioningError(h)
              /\ handler[h].resp.token = NoToken
        /\ handler[h].resp.token # NoToken =>
              /\ handler[h].resp.status = 200
              /\ ~FailedWithoutExists(h)

C2_Witness ==
    \E h \in Tokens :
        /\ handler[h].reply = Raised("unrelated", MsgTimeout)
        /\ SessionProvisioningError(h)
        /\ handler[h].resp.status = 500

\* C3: when the remote call fails with one of the texts that report the
\* room as already there, _ensure_room returns normally: no request ends in
\* the provisioning error, and the enclosing call of a well-formed request
\* answers 200.
C3_AlreadyExistsIsSuccess ==
    \A h \in Finished :
        (handler[h].reply.raised /\ handler[h].reply.text \in DuplicateTexts) =>
            /\ ~SessionProvisioningError(h)
            /\ WellFormed(handler[h].body) => handler[h].resp.status = 200

C3_Witness ==
    \E h, g \in Finished :
        /\ handler[h].body.kind = "token"
        /\ handler[h].reply = Raised("duplicate", MsgAlreadyExistsCode)
        /\ handler[h].resp.status = 200
        /\ handler[g].body.kind = "rooms"
        /\ handler[g].reply = Raised("duplicate", MsgRoomAlreadyExists)
        /\ handler[g].resp.created

\* C4: a call of _ensure_room that the platform answers with success or with
\* the room being there already returns normally and the room is held by the
\* platform afterwards; this covers the call made after an earlier call for
\* the same name has returned.
C4_EnsureRoomIdempotent ==
    \A h \in Finished :
        (handler[h].calls = 1 /\ handler[h].reply.cause \in {"none", "duplicate"}) =>
            /\ ~SessionProvisioningError(h)
            /\ handler[h].body.room \in rooms
            /\ handler[h].body.kind = "rooms" =>
                  handler[h].resp = create_room_return(handler[h].body)

C4_Witness ==
    \E h, g \in Finished :
        /\ h # g
        /\ handler[h].body.kind = "rooms" /\ handler[g].body.kind = "rooms"
        /\ handler[h].body.room = "r2" /\ handler[g].body.room = "r2"
        /\ ~handler[h].second /\ handler[h].reply = Ok
        /\ handler[g].second /\ handler[g].reply.cause = "duplicate"
        /\ handler[h].resp.status = 200 /\ handler[g].resp.status = 200
        /\ "r2" \in rooms

\* C5: a token response with status 200 names the identity and the room of
\* its own request, carries the url taken from the environment (or the
\* default), and its credential embeds that identity and that room.
C5_ResponseMatchesRequest ==
    \A h \in Tokens :
        handler[h].resp.status = 200 =>
            /\ handler[h].resp.identity = handler[h].body.identity
            /\ handler[h].resp.room = handler[h].body.room
            /\ handler[h].resp.url = getenv(environ, "LIVEKIT_URL", "ws://localhost:7880")
            /\ handler[h].resp.token.identity = handler[h].body.identity
            /\ handler[h].resp.token.grants.room = handler[h].body.room

C5_Witness ==
    \E h, g \in Tokens :
        /\ handler[h].resp.status = 200 /\ handler[g].resp.status = 200
        /\ handler[h].body.identity = "u1" /\ handler[h].body.room = "r1"
        /\ handler[h].body.name = "Ann"
        /\ handler[g].body.identity = "u2" /\ handler[g].body.room = "r2"
        /\ handler[h].resp.token.identity = "u1"
        /\ handler[g].resp.token.identity = "u2"

\* C6: under any interleaving the settings stay what the environment gave,
\* two well-formed requests with the same input and the same remote answer
\* end in the same response, and a well-formed request whose remote call did
\* not fail for an unrelated reason answers 200, also when several requests
\* in flight name the same room.
C6_RequestsIndependent ==
    /\ LIVEKIT_URL = getenv(environ, "LIVEKIT_URL", "ws://localhost:7880")
    /\ LIVEKIT_API_KEY = getenv(environ, "LIVEKIT_API_KEY", "devkey")
    /\ LIVEKIT_API_SECRET = getenv(environ, "LIVEKIT_API_SECRET", "secret")
    /\ \A h, g \in Finished :
          (/\ handler[h].body = handler[g].body
           /\ handler[h].reply = handler[g].reply
           /\ WellFormed(handler[h].body)) => handler[h].resp = handler[g].resp
    /\ \A h \in Finished :
          (/\ WellFormed(handler[h].body)
           /\ handler[h].calls = 1
           /\ handler[h].reply.cause \in {"none", "duplicate"}) =>
                handler[h].resp.status = 200

C6_Witness ==
    \E h, g \in Finished :
        /\ h # g
        /\ handler[h].body.room = "r2" /\ handler[g].body.room = "r2"
        /\ handler[h].body.kind = "token" /\ handler[g].body.kind = "rooms"
        /\ ~handler[h].second /\ ~handler[g].second
        /\ handler[h].reply.cause = "duplicate" /\ handler[g].reply = Ok
        /\ handler[h].resp.status = 200 /\ handler[g].resp.status = 200

C8_EmptyNeverServed ==
    \A h \in Busy :
        (/\ handler[h].body.kind = "token"
         /\ (handler[h].body.identity = "" \/ handler[h].body.room = "")) =>
            /\ handler[h].calls = 0
            /\ handler[h].resp.status # 200
            /\ handler[h].resp.token = NoToken

\* C9: the credential of every token response with status 200 grants join,
\* publish, subscribe and publish-data, for the room of its own request.
C9_FullGrantForOwnRoom ==
    \A h \in Tokens :
        handler[h].resp.status = 200 =>
            handler[h].resp.token.grants =
                [room_join |-> TRUE, room |-> handler[h].body.room,
                 can_publish |-> TRUE, can_subscribe |-> TRUE,
                 can_publish_data |-> TRUE]

C9_Witness ==
    \E h, g \in Tokens :
        /\ handler[h].resp.status = 200 /\ handler[g].resp.status = 200
        /\ handler[h].body.name = "Ann" /\ ~handler[h].body.auto_create_room
        /\ handler[g].body.name = None /\ handler[g].body.auto_create_room
        /\ handler[h].body.room = "r1" /\ handler[g].body.room = "r2"
        /\ handler[h].resp.token.grants.can_publish_data
        /\ handler[g].resp.token.grants.room = "r2"

(***************************************************************************)
(* Properties of the voice agent, stated for AgentSpec                     *)
(***************************************************************************)
Steps == <<"connect", "start", "reply">>

IsPrefix(p, q) == Len(p) <= Len(q) /\ SubSeq(q, 1, Len(p)) = p

Logged(i, line) == \E n \in 1..Len(job[i].log) : job[i].log[n] = line

\* the steps in order, one reply at most, the loop only after the reply,
\* the loop left only by cancellation, no loop once an error is logged
C10_Order(i) ==
    /\ IsPrefix(job[i].trace, Steps)
    /\ job[i].replies <= 1
    /\ job[i].pc = "sleep" => job[i].replies = 1 /\ job[i].trace = Steps
    /\ job[i].sleeps > 0 => job[i].replies = 1
    /\ (job[i].pc = "exited" /\ job[i].replies = 1) => job[i].exit = "cancelled"
    /\ Logged(i, "error") =>
          /\ job[i].replies = 0 /\ job[i].sleeps = 0
          /\ job[i].pc = "exited" /\ job[i].exit = "returned"
    /\ job[i].pc # "exited" => ~Logged(i, "ended")

\* C10 as stated: the order of the steps, and the session-ended line is
\* written on every exit.
C10_EndedOnEveryExit ==
    \A i \in Jobs :
        /\ C10_Order(i)
        /\ job[i].pc = "exited" => Logged(i, "ended")

\* C10 amended: the order of the steps, and the session-ended line is the
\* last line written on every exit that happens once session.start has been
\* awaited; an exit before that (connect or the construction of the
\* pipeline raised, or the task was cancelled while connecting) writes no
\* session-ended line.
C10_EndedOnEveryExitOfTry ==
    \A i \in Jobs :
        /\ C10_Order(i)
        /\ job[i].pc = "exited" =>
              /\ Logged(i, "ended") <=> job[i].tried
              /\ job[i].tried => job[i].log[Len(job[i].log)] = "ended"

C10_Witness ==
    \E i, k \in Jobs :
        /\ job[i].pc = "exited" /\ job[i].exit = "cancelled"
        /\ job[i].replies = 1 /\ job[i].sleeps > 0
        /\ job[i].log = <<"starting", "ended">>
        /\ job[k].pc = "exited" /\ job[k].exit = "raised"
        /\ job[k].log = <<"starting">>

====
